---- MODULE Spec2Model ----
(***************************************************************************)
(* Article Reader: the speech-synchronisation state machine of             *)
(* src/app/page.tsx, in its two variants, against a callback-driven Speech *)
(* Engine (the browser's speechSynthesis).                                 *)
(*                                                                         *)
(*   sentence variant  page.tsx lines 1-414   one utterance per sentence   *)
(*   word variant      page.tsx lines 416-722 one utterance for the whole  *)
(*                                            article + a timer estimator  *)
(*                                                                         *)
(* A text is a sequence of one-character strings.  A handler of the page   *)
(* runs to completion (one thread, no preemption), so each handler is one  *)
(* action; a callback closes over the values of the render in which it was *)
(* created, so every utterance and every timer carries the values its      *)
(* closure captured.                                                       *)
(*                                                                         *)
(* startSpeech, pauseSpeech, resumeSpeech and stopSpeech are the control   *)
(* surface of the session and are taken in every state of a mounted        *)
(* component; handleSubmit is taken only while the form is enabled         *)
(* (disabled={loading}, lines 283 and 295).                                *)
(*                                                                         *)
(* The Speech Engine is the browser's: a FIFO queue whose head is spoken,  *)
(* a paused flag that pause() sets, resume() clears and cancel() leaves,   *)
(* and terminal events (end, error) delivered as later tasks.  cancel()    *)
(* empties the queue at once, but the terminal event of a removed          *)
(* utterance may still arrive afterwards, as end or as error, or never.    *)
(*                                                                         *)
(* Five specifications share the variables:                                *)
(*   Spec         the page and the Speech Engine, on the texts of Contents *)
(*   UiSpec       Spec with the four controls taken only where the page    *)
(*                renders their buttons (lines 344-376 and 650-690); its   *)
(*                behaviours are behaviours of Spec                        *)
(*   PlaybackSpec one undisturbed playback of the sentence variant, with   *)
(*                an engine that starts and ends what it is given          *)
(*   RenderSpec   segmentation and renderArticleContent, on every text of  *)
(*                Texts                                                    *)
(*   ExtractSpec  POST /api/extract (src/app/api/extract/route.ts)         *)
(***************************************************************************)
EXTENDS Integers, Sequences, FiniteSets, TLC

\* ------------------------------------------------------------------ bounds
\* most utterances waiting in the engine's queue at once
MaxQueue == 2
\* most cancelled utterances whose terminal event is still to be delivered
MaxZombies == 1
\* most estimator timers pending at once
MaxTimers == 2
\* longest article text of the segmentation and rendering checks
MaxText == 5
\* ------------------------------------------------------------------- texts
\* the characters \s matches in this model
Spaces == {" ", "\n"}

\* the characters [.!?] matches
Puncts == {".", "!", "?"}

IsSpace(c) == c \in Spaces

\* String.prototype.trim
RECURSIVE TrimLeft(_)
TrimLeft(s) ==
    IF s # <<>> /\ IsSpace(Head(s)) THEN TrimLeft(Tail(s)) ELSE s

RECURSIVE TrimRight(_)
TrimRight(s) ==
    IF s # <<>> /\ IsSpace(s[Len(s)]) THEN TrimRight(SubSeq(s, 1, Len(s) - 1)) ELSE s

Trim(s) == TrimLeft(TrimRight(s))

\* String.prototype.split with a capturing group around a one-or-more run:
\* the parts alternate text, separator run, text, ..., and always end with a
\* text part (the empty text when the string ends with a separator run).
SplitRuns(s, seps) ==
    LET R[i \in 0..Len(s)] ==
            IF i = 0 THEN [parts |-> <<>>, cur |-> <<>>, inSep |-> FALSE]
            ELSE LET r == R[i - 1]
                     c == s[i]
                 IN IF (c \in seps) = r.inSep
                    THEN [r EXCEPT !.cur = Append(@, c)]
                    ELSE [parts |-> Append(r.parts, r.cur),
                          cur   |-> <<c>>,
                          inSep |-> ~r.inSep]
        f == R[Len(s)]
    IN IF f.inSep THEN f.parts \o <<f.cur, <<>> >> ELSE Append(f.parts, f.cur)

\* the reduce of handleSubmit with a punctuation run that has no sentence
\* before it pushed as a sentence of its own
RECURSIVE ReduceSentences_KeepsLeading(_, _, _)
ReduceSentences_KeepsLeading(parts, k, acc) ==
    IF k > Len(parts) THEN acc
    ELSE IF k % 2 = 1
         THEN ReduceSentences_KeepsLeading(parts, k + 1,
                  IF Trim(parts[k]) # <<>> THEN Append(acc, Trim(parts[k])) ELSE acc)
         ELSE ReduceSentences_KeepsLeading(parts, k + 1,
                  IF Len(acc) > 0
                  THEN [acc EXCEPT ![Len(acc)] = @ \o parts[k]]
                  ELSE Append(acc, parts[k]))

\* the reduce of handleSubmit: text parts are pushed trimmed when not blank,
\* a punctuation run is glued to the last sentence pushed so far
RECURSIVE ReduceSentences(_, _, _)
ReduceSentences(parts, k, acc) ==
    IF k > Len(parts) THEN acc
    ELSE IF k % 2 = 1
         THEN ReduceSentences(parts, k + 1,
                  IF Trim(parts[k]) # <<>> THEN Append(acc, Trim(parts[k])) ELSE acc)
         ELSE ReduceSentences(parts, k + 1,
                  IF Len(acc) > 0
                  THEN [acc EXCEPT ![Len(acc)] = @ \o parts[k]]
                  ELSE acc)

SentenceArray(content) ==
    SelectSeq(ReduceSentences(SplitRuns(content, Puncts), 1, <<>>),
              LAMBDA x : Len(Trim(x)) > 0)

\* data.content.split(/(\s+)/).filter(word => word.trim().length > 0)
WordArray(content) ==
    SelectSeq(SplitRuns(content, Spaces), LAMBDA w : Len(Trim(w)) > 0)

\* article.content.split(/\s+/): the text parts only, blank ones included
WordsToSpeak(content) ==
    LET parts == SplitRuns(content, Spaces)
    IN [k \in 1..((Len(parts) + 1) \div 2) |-> parts[2 * k - 1]]

\* the concatenation of a sequence of texts
RECURSIVE Concat(_)
Concat(ss) == IF ss = <<>> THEN <<>> ELSE Head(ss) \o Concat(Tail(ss))

\* sentence.replace(/[.!?]+$/, ''): the text without its last punctuation run
RECURSIVE StripPunct(_)
StripPunct(s) ==
    IF s # <<>> /\ s[Len(s)] \in Puncts
    THEN StripPunct(SubSeq(s, 1, Len(s) - 1))
    ELSE s

\* pat occurs in s at the 0-based position i
OccursAt(s, pat, i) ==
    /\ i >= 0 /\ i + Len(pat) <= Len(s)
    /\ SubSeq(s, i + 1, i + Len(pat)) = pat

\* String.prototype.indexOf(pat, from): the first position >= from, or -1
IndexOf(s, pat, from) ==
    LET ps == { i \in from..Len(s) : OccursAt(s, pat, i) }
    IN IF ps = {} THEN -1 ELSE CHOOSE i \in ps : \A j \in ps : i <= j

\* String.prototype.lastIndexOf(pat): the last position, or -1
LastIndexOf(s, pat) ==
    LET ps == { i \in 0..Len(s) : OccursAt(s, pat, i) }
    IN IF ps = {} THEN -1 ELSE CHOOSE i \in ps : \A j \in ps : i >= j

\* the forEach of renderArticleContent that fills paragraphBreaks: sentence k
\* (0-based k - 1) is searched from searchPos on; starts records sentenceStart
RECURSIVE LocateSentences(_, _, _, _)
LocateSentences(originalText, ss, k, acc) ==
    IF k > Len(ss) THEN acc
    ELSE LET sentence == ss[k]
             sentenceStart ==
                 IndexOf(originalText, StripPunct(sentence), acc.searchPos)
             textBefore == SubSeq(originalText, 1, sentenceStart)
             lastDoubleBreak == LastIndexOf(textBefore, <<"\n", "\n">>)
             lastSentenceEnd == IF acc.searchPos > 0 THEN acc.searchPos ELSE 0
         IN LocateSentences(originalText, ss, k + 1,
                IF sentenceStart # -1
                THEN [searchPos |-> sentenceStart + Len(sentence),
                      starts |-> Append(acc.starts, sentenceStart),
                      breaks |-> IF lastDoubleBreak > lastSentenceEnd
                                 THEN acc.breaks \cup {k - 1}
                                 ELSE acc.breaks]
                ELSE [acc EXCEPT !.starts = Append(@, -1)])

\* the second forEach of renderArticleContent: the text of each <p> element,
\* every sentence followed by one space except the last of the article
RECURSIVE Paragraphs(_, _, _, _, _)
Paragraphs(ss, breaks, k, elements, currentParagraph) ==
    IF k > Len(ss)
    THEN IF currentParagraph # <<>> THEN Append(elements, currentParagraph)
         ELSE elements
    ELSE LET span == ss[k] \o (IF k < Len(ss) THEN <<" ">> ELSE <<>>)
         IN IF (k - 1) \in breaks /\ currentParagraph # <<>>
            THEN Paragraphs(ss, breaks, k + 1,
                            Append(elements, currentParagraph), span)
            ELSE Paragraphs(ss, breaks, k + 1, elements,
                            currentParagraph \o span)

\* the map of the word variant's renderArticleContent: one flow of spans,
\* every word of contentWords followed by one space except the last
SpansW(contentWords) ==
    Concat([k \in 1..Len(contentWords) |->
               contentWords[k] \o
                   (IF k < Len(contentWords) THEN <<" ">> ELSE <<>>)])

\* .replace(/\s+/g, ' '): every run of white space becomes one space
ReplaceSpaceRuns(s) ==
    LET parts == SplitRuns(s, Spaces)
    IN Concat([k \in 1..Len(parts) |->
                  IF k % 2 = 0 THEN <<" ">> ELSE parts[k]])

\* the length of the run of white space s begins with
RECURSIVE SpaceRun(_)
SpaceRun(s) ==
    IF s # <<>> /\ Head(s) \in Spaces THEN 1 + SpaceRun(Tail(s)) ELSE 0

\* .replace(/\n\s*\n/g, '\n\n'): from a line feed, the longest stretch of
\* white space that ends with a line feed becomes two line feeds
RECURSIVE ReplaceBlankLines(_)
ReplaceBlankLines(s) ==
    IF s = <<>> THEN <<>>
    ELSE LET ends == { i \in 2..SpaceRun(s) : s[i] = "\n" }
         IN IF Head(s) = "\n" /\ ends # {}
            THEN LET e == CHOOSE i \in ends : \A j \in ends : i >= j
                 IN <<"\n", "\n">> \o ReplaceBlankLines(SubSeq(s, e + 1, Len(s)))
            ELSE << Head(s) >> \o ReplaceBlankLines(Tail(s))

\* cleanContent of the extraction endpoint
cleanContent(textContent) ==
    Trim(ReplaceBlankLines(ReplaceSpaceRuns(textContent)))

\* new URL(url) succeeds: the text begins with a scheme, letters then a colon
WellFormed(url) ==
    \E i \in 2..Len(url) :
        /\ url[i] = ":"
        /\ \A j \in 1..(i - 1) : url[j] \in {"h", "u"}

\* the bodies a client posts: not JSON, JSON null, and JSON objects without
\* a url, with an empty, a malformed and a well-formed url
Bodies ==
    { [kind |-> "text", has |-> FALSE, url |-> <<>>],
      [kind |-> "null", has |-> FALSE, url |-> <<>>],
      [kind |-> "object", has |-> FALSE, url |-> <<>>] }
    \cup { [kind |-> "object", has |-> TRUE, url |-> u] :
             u \in { <<>>, <<"u">>, <<":", "u">>, <<"h", ":", "u">> } }

\* the contents the extraction endpoint answers with in this model
Contents ==
    { <<>>,
      <<"a", "!">>,
      <<"a", ".", "\n", "\n", "b", "?", "a">> }

\* the characters of the article texts of the segmentation checks: a letter,
\* the two kinds of white space and a terminal punctuation mark
Chars == {"a", " ", "\n", "."}

\* every article text of at most MaxText characters
Texts == UNION { [1..n -> Chars] : n \in 0..MaxText }

\* the values of the URL field the user submits
Urls == { <<>>, <<" ">>, <<"u">> }

\* ------------------------------------------------------------------- state
VARIABLES
    variant,               \* which Home component is mounted: "sentence" | "word"
    mounted,               \* FALSE once the component has been unmounted
    article,               \* useState<ArticleData | null>
    loading,               \* useState(false)
    error,                 \* useState('')
    inflight,              \* extraction requests sent and not yet answered
    sentences,             \* useState<string[]>   (sentence variant)
    words,                 \* useState<string[]>   (word variant)
    isPlaying,             \* useState(false)
    isPaused,              \* useState(false)
    currentSentenceIndex,  \* useState(-1)         (sentence variant)
    currentWordIndex,      \* useState(-1)         (word variant)
    currentSentenceRef,    \* useRef<number>(-1)   (sentence variant)
    speechSynthesis,       \* the Speech Engine: [queue, zombies, paused]
    timers,                \* pending setTimeout(speakWithHighlight) closures
    calls,                 \* the engine and timer calls the last handler made
    hist,                  \* the last handler run and the state it started from
    rt,                    \* monitor of a pause / resume pair
    server,                \* the request POST /api/extract is answering
    view                   \* what renderArticleContent returned last

vars ==
    << variant, mounted, article, loading, error, inflight, sentences, words,
       isPlaying, isPaused, currentSentenceIndex, currentWordIndex,
       currentSentenceRef, speechSynthesis, timers, calls, hist, rt,
       server, view >>

NoArticle == [loaded |-> FALSE, content |-> <<>>]

Article(c) == [loaded |-> TRUE, content |-> c]

\* the index the variant highlights
CurrentIndex ==
    IF variant = "sentence" THEN currentSentenceIndex ELSE currentWordIndex

\* An utterance handed to speechSynthesis.speak, with what its onend closure
\* captured: the sentence index and the length of the sentences array of the
\* render that created it.  st is a ghost tag the code does not have:
\*   "live"       its playback has been neither cancelled nor restarted
\*   "cancelled"  speechSynthesis.cancel() was called after its playback began
\*   "stale"      a later startSpeech has superseded its playback
Utterance(i, n, st) == [idx |-> i, n |-> n, st |-> st, started |-> FALSE]

NoUtterance == [idx |-> -1, n |-> 1, st |-> "none", started |-> FALSE]

\* a pending setTimeout(speakWithHighlight): the closure's wordIndex, the
\* length of wordsToSpeak and the isPlaying of the render that created it;
\* its ghost tag is "live" until the next cancel() or startSpeech, then "stale"
Timer(i, n, p, st) == [wordIndex |-> i, n |-> n, playing |-> p, st |-> st]

Call(c, a) == [call |-> c, arg |-> a]

\* what a handler can reach outside React state, and the calls it has made
World == [ss |-> speechSynthesis, tm |-> timers, calls |-> <<>>]

Range(q) == { q[k] : k \in 1..Len(q) }

\* ghost: the playback of u has been cancelled
Cancelled(u) == IF u.st = "live" THEN [u EXCEPT !.st = "cancelled"] ELSE u

\* an utterance removed from the queue: only its terminal event is owed
Removed(u) == [Cancelled(u) EXCEPT !.started = FALSE]

\* ghost: a later startSpeech supersedes the playback of u
Stale(u) == [u EXCEPT !.st = "stale"]

\* speechSynthesis.cancel(): the queue is emptied at once; the terminal event
\* of each removed utterance is still owed (cancellation is best-effort) and
\* the paused flag is left as it is
cancel(w) ==
    [w EXCEPT !.ss.queue = <<>>,
              !.ss.zombies = @ \cup { Removed(u) : u \in Range(w.ss.queue) },
              !.tm = { Stale(t) : t \in @ },
              !.calls = Append(@, Call("cancel", -1))]

\* speechSynthesis.speak(utterance)
speak(w, u) ==
    [w EXCEPT !.ss.queue = Append(@, u),
              !.calls = Append(@, Call("speak", u.idx))]

\* speechSynthesis.pause()
pause(w) ==
    [w EXCEPT !.ss.paused = TRUE, !.calls = Append(@, Call("pause", -1))]

\* speechSynthesis.resume()
resume(w) ==
    [w EXCEPT !.ss.paused = FALSE, !.calls = Append(@, Call("resume", -1))]

\* setTimeout(speakWithHighlight, ...)
setTimeout(w, t) ==
    [w EXCEPT !.tm = @ \cup {t},
              !.calls = Append(@, Call("setTimeout", t.wordIndex))]

\* ghost: startSpeech begins a new playback, every earlier one is superseded
Supersede(w) ==
    [w EXCEPT !.ss.queue = [k \in 1..Len(@) |-> Stale(@[k])],
              !.ss.zombies = { Stale(u) : u \in @ },
              !.tm = { Stale(t) : t \in @ }]

\* speechSynthesis.speaking: true while the head utterance is being spoken;
\* engines differ on whether a queued utterance that has not begun counts
SpeakingOutcomes ==
    IF speechSynthesis.queue = <<>> THEN {FALSE}
    ELSE IF Head(speechSynthesis.queue).started THEN {TRUE}
    ELSE {TRUE, FALSE}

\* the bound on events owed by the engine admits another cancel()
CanCancel ==
    Cardinality(cancel(Supersede(World)).ss.zombies) <= MaxZombies

\* a React state setter: ignored once the component is unmounted
Set(new, old) == IF mounted THEN new ELSE old

\* failed: the last extraction answered was a failure; cap: the isPlaying the
\* closure of the timer that fired had captured
H(op, u) ==
    [op |-> op, st |-> u.st, last |-> u.idx + 1 >= u.n,
     pPlaying |-> isPlaying, pPaused |-> isPaused, pIdx |-> CurrentIndex,
     failed |-> hist.failed, cap |-> (op = "speakWithHighlight" /\ u.started)]

RtNone == [st |-> "none", idx |-> -1, fromStart |-> FALSE]

\* no request is being answered by the extraction endpoint
NoRequest ==
    [pc |-> "idle", body |-> [kind |-> "none", has |-> FALSE, url |-> <<>>],
     fetch |-> "none", parse |-> "none", textContent |-> <<>>,
     fetches |-> 0, responses |-> <<>>]

\* nothing has been rendered
NoView == [rendered |-> FALSE, starts |-> <<>>, breaks |-> {}, text |-> <<>>]

Init ==
    /\ variant \in {"sentence", "word"}
    /\ mounted = TRUE
    /\ article = NoArticle
    /\ loading = FALSE
    /\ error = ""
    /\ inflight = 0
    /\ sentences = <<>>
    /\ words = <<>>
    /\ isPlaying = FALSE
    /\ isPaused = FALSE
    /\ currentSentenceIndex = -1
    /\ currentWordIndex = -1
    /\ currentSentenceRef = -1
    /\ speechSynthesis = [queue |-> <<>>, zombies |-> {}, paused |-> FALSE]
    /\ timers = {}
    /\ calls = <<>>
    /\ hist = [op |-> "init", st |-> "none", last |-> FALSE,
               pPlaying |-> FALSE, pPaused |-> FALSE, pIdx |-> -1,
               failed |-> FALSE, cap |-> FALSE]
    /\ rt = RtNone
    /\ server = NoRequest
    /\ view = NoView

\* ------------------------------------------------ sentence variant (1-414)
\* speakSentence with the end test off by one (> for >=)
speakSentence_OffByOne(sentenceIndex, n, st, p, pa, w) ==
    IF sentenceIndex > n
    THEN /\ isPlaying' = Set(FALSE, isPlaying)
         /\ isPaused' = Set(FALSE, isPaused)
         /\ currentSentenceIndex' = Set(-1, currentSentenceIndex)
         /\ currentSentenceRef' = -1
         /\ speechSynthesis' = w.ss
         /\ timers' = w.tm
         /\ calls' = w.calls
    ELSE LET w1 == speak(w, Utterance(sentenceIndex, n, st))
         IN /\ isPlaying' = Set(p, isPlaying)
            /\ isPaused' = Set(pa, isPaused)
            /\ currentSentenceIndex' = Set(sentenceIndex, currentSentenceIndex)
            /\ currentSentenceRef' = sentenceIndex
            /\ speechSynthesis' = w1.ss
            /\ timers' = w1.tm
            /\ calls' = w1.calls

\* speakSentence(sentenceIndex) run in a closure whose sentences array has n
\* elements, on a playback tagged st, from React state (p, pa) and world w
speakSentence(sentenceIndex, n, st, p, pa, w) ==
    IF sentenceIndex >= n
    THEN /\ isPlaying' = Set(FALSE, isPlaying)
         /\ isPaused' = Set(FALSE, isPaused)
         /\ currentSentenceIndex' = Set(-1, currentSentenceIndex)
         /\ currentSentenceRef' = -1
         /\ speechSynthesis' = w.ss
         /\ timers' = w.tm
         /\ calls' = w.calls
    ELSE LET w1 == speak(w, Utterance(sentenceIndex, n, st))
         IN /\ isPlaying' = Set(p, isPlaying)
            /\ isPaused' = Set(pa, isPaused)
            /\ currentSentenceIndex' = Set(sentenceIndex, currentSentenceIndex)
            /\ currentSentenceRef' = sentenceIndex
            /\ speechSynthesis' = w1.ss
            /\ timers' = w1.tm
            /\ calls' = w1.calls

\* stopSpeech that forgets setCurrentSentenceIndex(-1)
stopSpeechBody_KeepsIndex(w) ==
    LET w1 == cancel(w)
    IN /\ isPlaying' = FALSE
       /\ isPaused' = FALSE
       /\ currentSentenceIndex' = currentSentenceIndex
       /\ currentSentenceRef' = -1
       /\ speechSynthesis' = w1.ss
       /\ timers' = w1.tm
       /\ calls' = w1.calls

\* stopSpeech that forgets setIsPaused(false)
stopSpeechBody_KeepsPaused(w) ==
    LET w1 == cancel(w)
    IN /\ isPlaying' = FALSE
       /\ isPaused' = isPaused
       /\ currentSentenceIndex' = -1
       /\ currentSentenceRef' = -1
       /\ speechSynthesis' = w1.ss
       /\ timers' = w1.tm
       /\ calls' = w1.calls

\* stopSpeech() of the sentence variant, from world w
stopSpeechBody(w) ==
    LET w1 == cancel(w)
    IN /\ isPlaying' = FALSE
       /\ isPaused' = FALSE
       /\ currentSentenceIndex' = -1
       /\ currentSentenceRef' = -1
       /\ speechSynthesis' = w1.ss
       /\ timers' = w1.tm
       /\ calls' = w1.calls

\* handleSubmit that forgets stopSpeech() before the request
handleSubmit_NoStop(u) ==
    /\ variant = "sentence" /\ mounted /\ ~loading
    /\ UNCHANGED << server, view >>
    /\ hist' = H("handleSubmit", NoUtterance)
    /\ rt' = RtNone
    /\ IF Trim(u) = <<>>
       THEN /\ error' = "Please enter a URL"
            /\ calls' = <<>>
            /\ UNCHANGED << variant, mounted, article, loading, inflight,
                            sentences, words, isPlaying, isPaused,
                            currentSentenceIndex, currentWordIndex,
                            currentSentenceRef, speechSynthesis, timers >>
       ELSE /\ CanCancel
            /\ loading' = TRUE
            /\ error' = ""
            /\ article' = NoArticle
            /\ calls' = <<>>
            /\ UNCHANGED << isPlaying, isPaused, currentSentenceIndex,
                            currentSentenceRef, speechSynthesis, timers >>
            /\ inflight' = inflight + 1
            /\ UNCHANGED << variant, mounted, sentences, words, currentWordIndex >>

\* handleSubmit that stops the speech before it looks at the URL
handleSubmit_StopsFirst(u) ==
    /\ variant = "sentence" /\ mounted /\ ~loading
    /\ UNCHANGED << server, view >>
    /\ hist' = H("handleSubmit", NoUtterance)
    /\ rt' = RtNone
    /\ IF Trim(u) = <<>>
       THEN /\ CanCancel
            /\ error' = "Please enter a URL"
            /\ stopSpeechBody(World)
            /\ UNCHANGED << variant, mounted, article, loading, inflight,
                            sentences, words, currentWordIndex >>
       ELSE /\ CanCancel
            /\ loading' = TRUE
            /\ error' = ""
            /\ article' = NoArticle
            /\ stopSpeechBody(World)
            /\ inflight' = inflight + 1
            /\ UNCHANGED << variant, mounted, sentences, words, currentWordIndex >>

\* handleSubmit up to its await: the form is disabled while loading
handleSubmit(u) ==
    /\ variant = "sentence" /\ mounted /\ ~loading
    /\ UNCHANGED << server, view >>
    /\ hist' = H("handleSubmit", NoUtterance)
    /\ rt' = RtNone
    /\ IF Trim(u) = <<>>
       THEN /\ error' = "Please enter a URL"
            /\ calls' = <<>>
            /\ UNCHANGED << variant, mounted, article, loading, inflight,
                            sentences, words, isPlaying, isPaused,
                            currentSentenceIndex, currentWordIndex,
                            currentSentenceRef, speechSynthesis, timers >>
       ELSE /\ CanCancel
            /\ loading' = TRUE
            /\ error' = ""
            /\ article' = NoArticle
            /\ stopSpeechBody(World)
            /\ inflight' = inflight + 1
            /\ UNCHANGED << variant, mounted, sentences, words, currentWordIndex >>

\* handleSubmit after its await, response.ok: setArticle, setSentences, finally
fetchOk(c) ==
    /\ variant = "sentence" /\ inflight > 0
    /\ inflight' = inflight - 1
    /\ article' = Set(Article(c), article)
    /\ sentences' = Set(SentenceArray(c), sentences)
    /\ loading' = Set(FALSE, loading)
    /\ calls' = <<>>
    /\ UNCHANGED << server, view >>
    /\ hist' = [H("fetchOk", NoUtterance) EXCEPT !.failed = FALSE]
    /\ rt' = RtNone
    /\ UNCHANGED << variant, mounted, error, words, isPlaying, isPaused,
                    currentSentenceIndex, currentWordIndex, currentSentenceRef,
                    speechSynthesis, timers >>

\* the failure path without the finally block: loading is left on
fetchFail_NoFinally ==
    /\ variant = "sentence" /\ inflight > 0
    /\ inflight' = inflight - 1
    /\ error' = Set("Failed to extract article", error)
    /\ loading' = loading
    /\ calls' = <<>>
    /\ UNCHANGED << server, view >>
    /\ hist' = [H("fetchFail", NoUtterance) EXCEPT !.failed = TRUE]
    /\ rt' = RtNone
    /\ UNCHANGED << variant, mounted, article, sentences, words, isPlaying,
                    isPaused, currentSentenceIndex, currentWordIndex,
                    currentSentenceRef, speechSynthesis, timers >>

\* handleSubmit after its await, !response.ok or a throw: catch, finally
fetchFail ==
    /\ variant = "sentence" /\ inflight > 0
    /\ inflight' = inflight - 1
    /\ error' = Set("Failed to extract article", error)
    /\ loading' = Set(FALSE, loading)
    /\ calls' = <<>>
    /\ UNCHANGED << server, view >>
    /\ hist' = [H("fetchFail", NoUtterance) EXCEPT !.failed = TRUE]
    /\ rt' = RtNone
    /\ UNCHANGED << variant, mounted, article, sentences, words, isPlaying,
                    isPaused, currentSentenceIndex, currentWordIndex,
                    currentSentenceRef, speechSynthesis, timers >>

\* startSpeech that does not cancel what the engine holds
startSpeech_NoCancel ==
    /\ variant = "sentence" /\ mounted
    /\ UNCHANGED << server, view >>
    /\ hist' = H("startSpeech", NoUtterance)
    /\ IF ~article.loaded \/ Len(sentences) = 0
       THEN /\ calls' = <<>>
            /\ rt' = RtNone
            /\ UNCHANGED << isPlaying, isPaused, currentSentenceIndex,
                            currentSentenceRef, speechSynthesis, timers >>
       ELSE /\ CanCancel
            /\ Len(speechSynthesis.queue) < MaxQueue
            /\ rt' = [st |-> "start", idx |-> -1, fromStart |-> FALSE]
            /\ speakSentence(0, Len(sentences), "live", TRUE, FALSE,
                             Supersede(World))
    /\ UNCHANGED << variant, mounted, article, loading, error, inflight,
                    sentences, words, currentWordIndex >>

\* startSpeech that tests the article only, not sentences.length
startSpeech_NoLengthTest ==
    /\ variant = "sentence" /\ mounted
    /\ UNCHANGED << server, view >>
    /\ hist' = H("startSpeech", NoUtterance)
    /\ IF ~article.loaded
       THEN /\ calls' = <<>>
            /\ rt' = RtNone
            /\ UNCHANGED << isPlaying, isPaused, currentSentenceIndex,
                            currentSentenceRef, speechSynthesis, timers >>
       ELSE /\ CanCancel
            /\ rt' = [st |-> "start", idx |-> -1, fromStart |-> FALSE]
            /\ speakSentence(0, Len(sentences), "live", TRUE, FALSE,
                             cancel(Supersede(World)))
    /\ UNCHANGED << variant, mounted, article, loading, error, inflight,
                    sentences, words, currentWordIndex >>

startSpeech ==
    /\ variant = "sentence" /\ mounted
    /\ UNCHANGED << server, view >>
    /\ hist' = H("startSpeech", NoUtterance)
    /\ IF ~article.loaded \/ Len(sentences) = 0
       THEN /\ calls' = <<>>
            /\ rt' = RtNone
            /\ UNCHANGED << isPlaying, isPaused, currentSentenceIndex,
                            currentSentenceRef, speechSynthesis, timers >>
       ELSE /\ CanCancel
            /\ rt' = [st |-> "start", idx |-> -1, fromStart |-> FALSE]
            /\ speakSentence(0, Len(sentences), "live", TRUE, FALSE,
                             cancel(Supersede(World)))
    /\ UNCHANGED << variant, mounted, article, loading, error, inflight,
                    sentences, words, currentWordIndex >>

pauseSpeech ==
    /\ variant = "sentence" /\ mounted
    /\ UNCHANGED << server, view >>
    /\ hist' = H("pauseSpeech", NoUtterance)
    /\ rt' = IF isPlaying /\ ~isPaused
             THEN [st |-> "pause", idx |-> CurrentIndex,
                   fromStart |-> rt.st = "start"]
             ELSE RtNone
    /\ \E speaking \in SpeakingOutcomes :
          IF speaking /\ ~speechSynthesis.paused
          THEN LET w1 == pause(World)
               IN /\ isPaused' = TRUE
                  /\ speechSynthesis' = w1.ss
                  /\ calls' = w1.calls
          ELSE /\ calls' = <<>>
               /\ UNCHANGED << isPaused, speechSynthesis >>
    /\ UNCHANGED << variant, mounted, article, loading, error, inflight,
                    sentences, words, isPlaying, currentSentenceIndex,
                    currentWordIndex, currentSentenceRef, timers >>

\* resumeSpeech that resumes the engine and forgets setIsPaused(false)
resumeSpeech_KeepsPaused ==
    /\ variant = "sentence" /\ mounted
    /\ UNCHANGED << server, view >>
    /\ hist' = H("resumeSpeech", NoUtterance)
    /\ rt' = IF rt.st = "pause" THEN [rt EXCEPT !.st = "resume"] ELSE RtNone
    /\ IF speechSynthesis.paused
       THEN LET w1 == resume(World)
            IN /\ isPaused' = isPaused
               /\ speechSynthesis' = w1.ss
               /\ calls' = w1.calls
       ELSE /\ calls' = <<>>
            /\ UNCHANGED << isPaused, speechSynthesis >>
    /\ UNCHANGED << variant, mounted, article, loading, error, inflight,
                    sentences, words, isPlaying, currentSentenceIndex,
                    currentWordIndex, currentSentenceRef, timers >>

resumeSpeech ==
    /\ variant = "sentence" /\ mounted
    /\ UNCHANGED << server, view >>
    /\ hist' = H("resumeSpeech", NoUtterance)
    /\ rt' = IF rt.st = "pause" THEN [rt EXCEPT !.st = "resume"] ELSE RtNone
    /\ IF speechSynthesis.paused
       THEN LET w1 == resume(World)
            IN /\ isPaused' = FALSE
               /\ speechSynthesis' = w1.ss
               /\ calls' = w1.calls
       ELSE /\ calls' = <<>>
            /\ UNCHANGED << isPaused, speechSynthesis >>
    /\ UNCHANGED << variant, mounted, article, loading, error, inflight,
                    sentences, words, isPlaying, currentSentenceIndex,
                    currentWordIndex, currentSentenceRef, timers >>

stopSpeech ==
    /\ variant = "sentence" /\ mounted
    /\ CanCancel
    /\ UNCHANGED << server, view >>
    /\ hist' = H("stopSpeech", NoUtterance)
    /\ rt' = RtNone
    /\ stopSpeechBody(World)
    /\ UNCHANGED << variant, mounted, article, loading, error, inflight,
                    sentences, words, currentWordIndex >>

\* cleanup of the useEffect of lines 30-34, run when the component unmounts
unmount ==
    /\ variant = "sentence" /\ mounted
    /\ CanCancel
    /\ mounted' = FALSE
    /\ LET w1 == cancel(World)
       IN /\ speechSynthesis' = w1.ss
          /\ timers' = w1.tm
          /\ calls' = w1.calls
    /\ UNCHANGED << server, view >>
    /\ hist' = H("unmount", NoUtterance)
    /\ rt' = RtNone
    /\ UNCHANGED << variant, article, loading, error, inflight, sentences,
                    words, isPlaying, isPaused, currentSentenceIndex,
                    currentWordIndex, currentSentenceRef >>

\* ------------------------------------------------------- the Speech Engine
\* The events the engine may deliver next: a terminal event of the utterance
\* at the head of the queue unless the engine is paused, and the terminal
\* event still owed to any cancelled utterance.
Owed ==
    (IF speechSynthesis.queue # <<>> /\ ~speechSynthesis.paused
     THEN { [src |-> "queue", u |-> Head(speechSynthesis.queue)] }
     ELSE {})
    \cup { [src |-> "zombie", u |-> z] : z \in speechSynthesis.zombies }

\* the world once the engine has let go of the utterance of event e
Released(e) ==
    IF e.src = "queue"
    THEN [World EXCEPT !.ss.queue = Tail(@)]
    ELSE [World EXCEPT !.ss.zombies = @ \ {e.u}]

\* the engine begins to speak the head of the queue; the sentence variant
\* registers no onstart handler
engineStart ==
    /\ variant = "sentence"
    /\ speechSynthesis.queue # <<>>
    /\ ~Head(speechSynthesis.queue).started
    /\ ~speechSynthesis.paused
    /\ speechSynthesis' =
           [speechSynthesis EXCEPT !.queue[1].started = TRUE]
    /\ calls' = <<>>
    /\ UNCHANGED << server, view >>
    /\ hist' = H("engineStart", Head(speechSynthesis.queue))
    /\ rt' = RtNone
    /\ UNCHANGED << variant, mounted, article, loading, error, inflight,
                    sentences, words, isPlaying, isPaused, currentSentenceIndex,
                    currentWordIndex, currentSentenceRef, timers >>

\* onend that submits the sentence that has just ended once more
onend_Repeat(e) ==
    /\ variant = "sentence"
    /\ e \in Owed
    /\ e.src = "queue" => e.u.started
    /\ Len(Released(e).ss.queue) < MaxQueue
    /\ UNCHANGED << server, view >>
    /\ hist' = H("onend", e.u)
    /\ rt' = RtNone
    /\ speakSentence(e.u.idx, e.u.n, e.u.st, isPlaying, isPaused, Released(e))
    /\ UNCHANGED << variant, mounted, article, loading, error, inflight,
                    sentences, words, currentWordIndex >>

\* utterance.onend of lines 114-117
onend(e) ==
    /\ variant = "sentence"
    /\ e \in Owed
    /\ e.src = "queue" => e.u.started
    /\ e.u.idx + 1 < e.u.n => Len(Released(e).ss.queue) < MaxQueue
    /\ UNCHANGED << server, view >>
    /\ hist' = H("onend", e.u)
    /\ rt' = RtNone
    /\ speakSentence(e.u.idx + 1, e.u.n, e.u.st, isPlaying, isPaused,
                     Released(e))
    /\ UNCHANGED << variant, mounted, article, loading, error, inflight,
                    sentences, words, currentWordIndex >>

\* onerror that speaks the failed sentence again
onerror_Retry(e) ==
    /\ variant = "sentence"
    /\ e \in Owed
    /\ Len(Released(e).ss.queue) < MaxQueue
    /\ UNCHANGED << server, view >>
    /\ hist' = H("onerror", e.u)
    /\ rt' = RtNone
    /\ speakSentence(e.u.idx, e.u.n, e.u.st, isPlaying, isPaused, Released(e))
    /\ UNCHANGED << variant, mounted, article, loading, error, inflight,
                    sentences, words, currentWordIndex >>

\* utterance.onerror of lines 119-124
onerror(e) ==
    /\ variant = "sentence"
    /\ e \in Owed
    /\ UNCHANGED << server, view >>
    /\ hist' = H("onerror", e.u)
    /\ rt' = RtNone
    /\ isPlaying' = Set(FALSE, isPlaying)
    /\ isPaused' = Set(FALSE, isPaused)
    /\ currentSentenceIndex' = Set(-1, currentSentenceIndex)
    /\ currentSentenceRef' = -1
    /\ speechSynthesis' = Released(e).ss
    /\ calls' = <<>>
    /\ UNCHANGED << variant, mounted, article, loading, error, inflight,
                    sentences, words, currentWordIndex, timers >>

\* the engine never delivers the event owed to a cancelled utterance
engineDrop(z) ==
    /\ z \in speechSynthesis.zombies
    /\ speechSynthesis' = [speechSynthesis EXCEPT !.zombies = @ \ {z}]
    /\ calls' = <<>>
    /\ UNCHANGED << server, view >>
    /\ hist' = H("engineDrop", z)
    /\ rt' = RtNone
    /\ UNCHANGED << variant, mounted, article, loading, error, inflight,
                    sentences, words, isPlaying, isPaused, currentSentenceIndex,
                    currentWordIndex, currentSentenceRef, timers >>

\* ---------------------------------------------------- word variant (416-722)
stopSpeechBodyW(w) ==
    LET w1 == cancel(w)
    IN /\ isPlaying' = FALSE
       /\ isPaused' = FALSE
       /\ currentWordIndex' = -1
       /\ speechSynthesis' = w1.ss
       /\ timers' = w1.tm
       /\ calls' = w1.calls

handleSubmitW(u) ==
    /\ variant = "word" /\ mounted /\ ~loading
    /\ UNCHANGED << server, view >>
    /\ hist' = H("handleSubmit", NoUtterance)
    /\ rt' = RtNone
    /\ IF Trim(u) = <<>>
       THEN /\ error' = "Please enter a URL"
            /\ calls' = <<>>
            /\ UNCHANGED << variant, mounted, article, loading, inflight,
                            sentences, words, isPlaying, isPaused,
                            currentSentenceIndex, currentWordIndex,
                            currentSentenceRef, speechSynthesis, timers >>
       ELSE /\ CanCancel
            /\ loading' = TRUE
            /\ error' = ""
            /\ article' = NoArticle
            /\ stopSpeechBodyW(World)
            /\ inflight' = inflight + 1
            /\ UNCHANGED << variant, mounted, sentences, words,
                            currentSentenceIndex, currentSentenceRef >>

fetchOkW(c) ==
    /\ variant = "word" /\ inflight > 0
    /\ inflight' = inflight - 1
    /\ article' = Set(Article(c), article)
    /\ words' = Set(WordArray(c), words)
    /\ loading' = Set(FALSE, loading)
    /\ calls' = <<>>
    /\ UNCHANGED << server, view >>
    /\ hist' = [H("fetchOk", NoUtterance) EXCEPT !.failed = FALSE]
    /\ rt' = RtNone
    /\ UNCHANGED << variant, mounted, error, sentences, isPlaying, isPaused,
                    currentSentenceIndex, currentWordIndex, currentSentenceRef,
                    speechSynthesis, timers >>

fetchFailW ==
    /\ variant = "word" /\ inflight > 0
    /\ inflight' = inflight - 1
    /\ error' = Set("Failed to extract article", error)
    /\ loading' = Set(FALSE, loading)
    /\ calls' = <<>>
    /\ UNCHANGED << server, view >>
    /\ hist' = [H("fetchFail", NoUtterance) EXCEPT !.failed = TRUE]
    /\ rt' = RtNone
    /\ UNCHANGED << variant, mounted, article, sentences, words, isPlaying,
                    isPaused, currentSentenceIndex, currentWordIndex,
                    currentSentenceRef, speechSynthesis, timers >>

\* startSpeech that sets Playing and index 0 itself, without waiting for onstart
startSpeechW_SetsPlaying ==
    /\ variant = "word" /\ mounted
    /\ UNCHANGED << server, view >>
    /\ hist' = H("startSpeech", NoUtterance)
    /\ rt' = RtNone
    /\ IF ~article.loaded \/ Len(words) = 0
       THEN /\ calls' = <<>>
            /\ UNCHANGED << speechSynthesis, timers, isPlaying,
                            currentWordIndex >>
       ELSE LET w1 == cancel(Supersede(World))
                w2 == speak(w1, Utterance(0, 1, "live"))
                w3 == setTimeout(w2, Timer(0, Len(WordsToSpeak(article.content)),
                                           isPlaying, "live"))
            IN /\ CanCancel
               /\ Cardinality(w3.tm) <= MaxTimers
               /\ speechSynthesis' = w3.ss
               /\ timers' = w3.tm
               /\ calls' = w3.calls
               /\ isPlaying' = TRUE
               /\ currentWordIndex' = 0
    /\ UNCHANGED << variant, mounted, article, loading, error, inflight,
                    sentences, words, isPaused, currentSentenceIndex,
                    currentSentenceRef >>

\* startSpeech of lines 481-531: cancel, one utterance for the whole article,
\* and the first estimator timer, whose closure keeps the isPlaying it saw
startSpeechW ==
    /\ variant = "word" /\ mounted
    /\ UNCHANGED << server, view >>
    /\ hist' = H("startSpeech", NoUtterance)
    /\ rt' = RtNone
    /\ IF ~article.loaded \/ Len(words) = 0
       THEN /\ calls' = <<>>
            /\ UNCHANGED << speechSynthesis, timers >>
       ELSE LET w1 == cancel(Supersede(World))
                w2 == speak(w1, Utterance(0, 1, "live"))
                w3 == setTimeout(w2, Timer(0, Len(WordsToSpeak(article.content)),
                                           isPlaying, "live"))
            IN /\ CanCancel
               /\ Cardinality(w3.tm) <= MaxTimers
               /\ speechSynthesis' = w3.ss
               /\ timers' = w3.tm
               /\ calls' = w3.calls
    /\ UNCHANGED << variant, mounted, article, loading, error, inflight,
                    sentences, words, isPlaying, isPaused, currentSentenceIndex,
                    currentWordIndex, currentSentenceRef >>

\* utterance.onstart of lines 498-502: the engine begins to speak the head
onstartW ==
    /\ variant = "word"
    /\ speechSynthesis.queue # <<>>
    /\ ~Head(speechSynthesis.queue).started
    /\ ~speechSynthesis.paused
    /\ speechSynthesis' =
           [speechSynthesis EXCEPT !.queue[1].started = TRUE]
    /\ isPlaying' = Set(TRUE, isPlaying)
    /\ isPaused' = Set(FALSE, isPaused)
    /\ currentWordIndex' = Set(0, currentWordIndex)
    /\ calls' = <<>>
    /\ UNCHANGED << server, view >>
    /\ hist' = H("onstart", Head(speechSynthesis.queue))
    /\ rt' = RtNone
    /\ UNCHANGED << variant, mounted, article, loading, error, inflight,
                    sentences, words, currentSentenceIndex, currentSentenceRef,
                    timers >>

\* utterance.onend of lines 504-508
onendW(e) ==
    /\ variant = "word"
    /\ e \in Owed
    /\ e.src = "queue" => e.u.started
    /\ UNCHANGED << server, view >>
    /\ hist' = H("onend", e.u)
    /\ rt' = RtNone
    /\ isPlaying' = Set(FALSE, isPlaying)
    /\ isPaused' = Set(FALSE, isPaused)
    /\ currentWordIndex' = Set(-1, currentWordIndex)
    /\ speechSynthesis' = Released(e).ss
    /\ calls' = <<>>
    /\ UNCHANGED << variant, mounted, article, loading, error, inflight,
                    sentences, words, currentSentenceIndex, currentSentenceRef,
                    timers >>

\* utterance.onerror of lines 510-514
onerrorW(e) ==
    /\ variant = "word"
    /\ e \in Owed
    /\ UNCHANGED << server, view >>
    /\ hist' = H("onerror", e.u)
    /\ rt' = RtNone
    /\ isPlaying' = Set(FALSE, isPlaying)
    /\ isPaused' = Set(FALSE, isPaused)
    /\ currentWordIndex' = Set(-1, currentWordIndex)
    /\ speechSynthesis' = Released(e).ss
    /\ calls' = <<>>
    /\ UNCHANGED << variant, mounted, article, loading, error, inflight,
                    sentences, words, currentSentenceIndex, currentSentenceRef,
                    timers >>

\* the timer t as the utterance-shaped record hist keeps
TimerEvent(t) ==
    [idx |-> t.wordIndex, n |-> t.n, st |-> t.st, started |-> t.playing]

\* a pending timer fires: speakWithHighlight of lines 517-527, with the
\* wordIndex, wordsToSpeak and isPlaying its closure captured
speakWithHighlight(t) ==
    /\ variant = "word"
    /\ t \in timers
    /\ UNCHANGED << server, view >>
    /\ hist' = H("speakWithHighlight", TimerEvent(t))
    /\ rt' = RtNone
    /\ LET w == [World EXCEPT !.tm = @ \ {t}]
       IN IF t.wordIndex < t.n /\ t.playing
          THEN LET w1 == setTimeout(w, [t EXCEPT !.wordIndex = @ + 1])
               IN /\ currentWordIndex' = Set(t.wordIndex, currentWordIndex)
                  /\ timers' = w1.tm
                  /\ calls' = w1.calls
          ELSE /\ timers' = w.tm
               /\ calls' = <<>>
               /\ UNCHANGED currentWordIndex
    /\ UNCHANGED << variant, mounted, article, loading, error, inflight,
                    sentences, words, isPlaying, isPaused, currentSentenceIndex,
                    currentSentenceRef, speechSynthesis >>

pauseSpeechW ==
    /\ variant = "word" /\ mounted
    /\ UNCHANGED << server, view >>
    /\ hist' = H("pauseSpeech", NoUtterance)
    /\ rt' = IF isPlaying /\ ~isPaused
             THEN [st |-> "pause", idx |-> CurrentIndex,
                   fromStart |-> rt.st = "start"]
             ELSE RtNone
    /\ \E speaking \in SpeakingOutcomes :
          IF speaking /\ ~speechSynthesis.paused
          THEN LET w1 == pause(World)
               IN /\ isPaused' = TRUE
                  /\ speechSynthesis' = w1.ss
                  /\ calls' = w1.calls
          ELSE /\ calls' = <<>>
               /\ UNCHANGED << isPaused, speechSynthesis >>
    /\ UNCHANGED << variant, mounted, article, loading, error, inflight,
                    sentences, words, isPlaying, currentSentenceIndex,
                    currentWordIndex, currentSentenceRef, timers >>

resumeSpeechW ==
    /\ variant = "word" /\ mounted
    /\ UNCHANGED << server, view >>
    /\ hist' = H("resumeSpeech", NoUtterance)
    /\ rt' = IF rt.st = "pause" THEN [rt EXCEPT !.st = "resume"] ELSE RtNone
    /\ IF speechSynthesis.paused
       THEN LET w1 == resume(World)
            IN /\ isPaused' = FALSE
               /\ speechSynthesis' = w1.ss
               /\ calls' = w1.calls
       ELSE /\ calls' = <<>>
            /\ UNCHANGED << isPaused, speechSynthesis >>
    /\ UNCHANGED << variant, mounted, article, loading, error, inflight,
                    sentences, words, isPlaying, currentSentenceIndex,
                    currentWordIndex, currentSentenceRef, timers >>

stopSpeechW ==
    /\ variant = "word" /\ mounted
    /\ CanCancel
    /\ UNCHANGED << server, view >>
    /\ hist' = H("stopSpeech", NoUtterance)
    /\ rt' = RtNone
    /\ stopSpeechBodyW(World)
    /\ UNCHANGED << variant, mounted, article, loading, error, inflight,
                    sentences, words, currentSentenceIndex, currentSentenceRef >>

\* the word variant registers no cleanup effect: unmounting calls nothing
unmountW ==
    /\ variant = "word" /\ mounted
    /\ mounted' = FALSE
    /\ calls' = <<>>
    /\ UNCHANGED << server, view >>
    /\ hist' = H("unmount", NoUtterance)
    /\ rt' = RtNone
    /\ UNCHANGED << variant, article, loading, error, inflight, sentences,
                    words, isPlaying, isPaused, currentSentenceIndex,
                    currentWordIndex, currentSentenceRef, speechSynthesis,
                    timers >>

\* ------------------------------------------------------------- rendering
\* renderArticleContent of the sentence variant (lines 186-251): null without
\* an article or without sentences, else the <p> elements
renderArticleContent ==
    /\ variant = "sentence" /\ mounted
    /\ view' =
          IF ~article.loaded \/ Len(sentences) = 0 THEN NoView
          ELSE LET loc == LocateSentences(article.content, sentences, 1,
                              [searchPos |-> 0, starts |-> <<>>, breaks |-> {}])
               IN [rendered |-> TRUE,
                   starts |-> loc.starts,
                   breaks |-> loc.breaks,
                   text |-> Paragraphs(sentences, loc.breaks, 1, <<>>, <<>>)]
    /\ UNCHANGED << variant, mounted, article, loading, error, inflight,
                    sentences, words, isPlaying, isPaused, currentSentenceIndex,
                    currentWordIndex, currentSentenceRef, speechSynthesis,
                    timers, calls, hist, rt, server >>

\* renderArticleContent of the word variant (lines 571-589): the content as it
\* is without words, else one flow of spans with no paragraph element
renderArticleContentW ==
    /\ variant = "word" /\ mounted
    /\ view' =
          IF ~article.loaded THEN NoView
          ELSE [rendered |-> TRUE,
                starts |-> <<>>,
                breaks |-> {},
                text |-> IF Len(words) = 0 THEN << article.content >>
                         ELSE << SpansW(WordsToSpeak(article.content)) >>]
    /\ UNCHANGED << variant, mounted, article, loading, error, inflight,
                    sentences, words, isPlaying, isPaused, currentSentenceIndex,
                    currentWordIndex, currentSentenceRef, speechSynthesis,
                    timers, calls, hist, rt, server >>

\* --------------------------------------- POST /api/extract (route.ts 5-61)
\* the variables of the page, which the endpoint does not touch
page ==
    << variant, mounted, article, loading, error, inflight, sentences, words,
       isPlaying, isPaused, currentSentenceIndex, currentWordIndex,
       currentSentenceRef, speechSynthesis, timers, calls, hist, rt, view >>

\* return NextResponse.json(..., { status }): the handler is over
Respond(status, content) ==
    [server EXCEPT !.pc = "done",
                   !.responses = Append(@, [status |-> status, content |-> content])]

\* a request arrives; the handler awaits request.json()
POST(b) ==
    /\ server.pc = "idle"
    /\ server' = [server EXCEPT !.pc = "json", !.body = b]
    /\ UNCHANGED page

\* lines 7-25: the body is read and destructured (a throw goes to the outer
\* catch), the url is tested and validated, and the article is requested
requestJson ==
    /\ server.pc = "json"
    /\ server' =
          LET b == server.body
          IN IF b.kind # "object" THEN Respond(500, <<>>)
             ELSE IF ~b.has \/ b.url = <<>> THEN Respond(400, <<>>)
             ELSE IF ~WellFormed(b.url) THEN Respond(400, <<>>)
             ELSE [server EXCEPT !.pc = "fetch", !.fetches = @ + 1]
    /\ UNCHANGED page

\* lines 21-31: fetch rejects (outer catch), answers not OK, or answers OK
fetchDone(o) ==
    /\ server.pc = "fetch"
    /\ server' =
          IF o = "ok" THEN [server EXCEPT !.pc = "parse", !.fetch = o]
          ELSE [Respond(500, <<>>) EXCEPT !.fetch = o]
    /\ UNCHANGED page

\* lines 31-55: response.text(), JSDOM or Readability throws (outer catch),
\* parse() returns null, the article has no textContent, or it has one
readabilityParse(o, t) ==
    /\ server.pc = "parse"
    /\ (o = "article") = (t # <<>>)
    /\ server' =
          IF o = "article"
          THEN [Respond(200, cleanContent(t)) EXCEPT !.parse = o, !.textContent = t]
          ELSE [Respond(500, <<>>) EXCEPT !.parse = o]
    /\ UNCHANGED page

\* ------------------------------------------------------------ specification
Next ==
    \/ \E u \in Urls : handleSubmit(u)
    \/ \E c \in Contents : fetchOk(c)
    \/ fetchFail
    \/ startSpeech
    \/ pauseSpeech
    \/ resumeSpeech
    \/ stopSpeech
    \/ unmount
    \/ engineStart
    \/ \E e \in Owed : onend(e)
    \/ \E e \in Owed : onerror(e)
    \/ \E z \in speechSynthesis.zombies : engineDrop(z)
    \/ \E u \in Urls : handleSubmitW(u)
    \/ \E c \in Contents : fetchOkW(c)
    \/ fetchFailW
    \/ startSpeechW
    \/ onstartW
    \/ \E e \in Owed : onendW(e)
    \/ \E e \in Owed : onerrorW(e)
    \/ \E t \in timers : speakWithHighlight(t)
    \/ pauseSpeechW
    \/ resumeSpeechW
    \/ stopSpeechW
    \/ unmountW

Spec == Init /\ [][Next]_vars

\* the extraction endpoint alone, answering one request
ExtractNext ==
    \/ \E b \in Bodies : POST(b)
    \/ requestJson
    \/ \E o \in {"rejected", "notOk", "ok"} : fetchDone(o)
    \/ \E o \in {"threw", "null", "empty", "article"} :
          \E t \in Texts : readabilityParse(o, t)

ExtractSpec == Init /\ [][ExtractNext]_vars

\* segmentation and rendering alone, over every text of Texts: the page has
\* sent its first extraction request (handleSubmit from Init) and the answer
\* is any text
RenderInit ==
    /\ variant \in {"sentence", "word"}
    /\ mounted = TRUE
    /\ article = NoArticle
    /\ loading = TRUE
    /\ error = ""
    /\ inflight = 1
    /\ sentences = <<>>
    /\ words = <<>>
    /\ isPlaying = FALSE
    /\ isPaused = FALSE
    /\ currentSentenceIndex = -1
    /\ currentWordIndex = -1
    /\ currentSentenceRef = -1
    /\ speechSynthesis = [queue |-> <<>>, zombies |-> {}, paused |-> FALSE]
    /\ timers = {}
    /\ calls = << Call("cancel", -1) >>
    /\ hist = [op |-> "handleSubmit", st |-> "none", last |-> FALSE,
               pPlaying |-> FALSE, pPaused |-> FALSE, pIdx |-> -1,
               failed |-> FALSE, cap |-> FALSE]
    /\ rt = RtNone
    /\ server = NoRequest
    /\ view = NoView

RenderNext ==
    \/ \E c \in Texts : fetchOk(c)
    \/ renderArticleContent
    \/ \E c \in Texts : fetchOkW(c)
    \/ renderArticleContentW

RenderSpec == RenderInit /\ [][RenderNext]_vars

\* one uninterrupted playback after another in the sentence variant: the
\* answer to the first request is any text, startSpeech is called only while
\* nothing is playing, no other control is used, and the engine reports no
\* error; it begins every utterance it is given and signals its end
PlaybackInit == RenderInit /\ variant = "sentence"

startPlayback == ~isPlaying /\ startSpeech

PlaybackNext ==
    \/ \E c \in Texts : fetchOk(c)
    \/ startPlayback
    \/ engineStart
    \/ \E e \in Owed : onend(e)

PlaybackSpec ==
    /\ PlaybackInit /\ [][PlaybackNext]_vars
    /\ WF_vars(engineStart)
    /\ WF_vars(\E e \in Owed : onend(e))

\* the page as its buttons allow it to be driven: the controls are rendered
\* only with an article (lines 322, 634); Play only while isPlaying is false,
\* Pause while playing and not paused, Resume while playing and paused, Stop
\* while playing (lines 344-376, 650-690)
playButton == article.loaded /\ ~isPlaying /\ startSpeech

pauseButton == article.loaded /\ isPlaying /\ ~isPaused /\ pauseSpeech

resumeButton == article.loaded /\ isPlaying /\ isPaused /\ resumeSpeech

stopButton == article.loaded /\ isPlaying /\ stopSpeech

playButtonW == article.loaded /\ ~isPlaying /\ startSpeechW

pauseButtonW == article.loaded /\ isPlaying /\ ~isPaused /\ pauseSpeechW

resumeButtonW == article.loaded /\ isPlaying /\ isPaused /\ resumeSpeechW

stopButtonW == article.loaded /\ isPlaying /\ stopSpeechW

UiNext ==
    \/ \E u \in Urls : handleSubmit(u)
    \/ \E c \in Contents : fetchOk(c)
    \/ fetchFail
    \/ playButton
    \/ pauseButton
    \/ resumeButton
    \/ stopButton
    \/ unmount
    \/ engineStart
    \/ \E e \in Owed : onend(e)
    \/ \E e \in Owed : onerror(e)
    \/ \E z \in speechSynthesis.zombies : engineDrop(z)
    \/ \E u \in Urls : handleSubmitW(u)
    \/ \E c \in Contents : fetchOkW(c)
    \/ fetchFailW
    \/ playButtonW
    \/ onstartW
    \/ \E e \in Owed : onendW(e)
    \/ \E e \in Owed : onerrorW(e)
    \/ \E t \in timers : speakWithHighlight(t)
    \/ pauseButtonW
    \/ resumeButtonW
    \/ stopButtonW
    \/ unmountW

UiSpec == Init /\ [][UiNext]_vars

\* ------------------------------------------------------------------ claims
Units == IF variant = "sentence" THEN sentences ELSE words

\* the React state the controls show is what it was when the handler began
SameSession ==
    /\ isPlaying = hist.pPlaying
    /\ isPaused = hist.pPaused
    /\ CurrentIndex = hist.pIdx

\* C1: sentence variant: an end or error callback of an utterance whose
\* playback a later startSpeech has superseded changes neither isPlaying,
\* isPaused nor currentSentenceIndex and submits no utterance.
C1_StaleCallbackIsNoOp ==
    (variant = "sentence" /\ mounted /\ hist.op \in {"onend", "onerror"}
        /\ hist.st = "stale")
    => (SameSession /\ calls = <<>>)

\* C2: at most one utterance submitted by the controller is queued or
\* speaking in the engine, in every reachable state.
C2_AtMostOneUtterance ==
    Len(speechSynthesis.queue) <= 1

\* C3: sentence variant: from one Playing state to the next, startSpeech
\* apart, currentSentenceIndex does not decrease until it is reset to -1.
C3_IndexNonDecreasing ==
    (variant = "sentence" /\ mounted
        /\ hist.op \notin {"init", "startSpeech"}
        /\ hist.pPlaying /\ ~hist.pPaused /\ hist.pIdx # -1
        /\ isPlaying /\ ~isPaused /\ currentSentenceIndex # -1)
    => currentSentenceIndex >= hist.pIdx

\* C4: stopSpeech, from any state, leaves the session not playing, not paused,
\* with index -1 and has asked the engine to cancel, once; on a session that
\* was already stopped or idle it changes neither state nor index.
C4_StopSpeech ==
    hist.op = "stopSpeech"
    => /\ ~isPlaying /\ ~isPaused /\ CurrentIndex = -1
       /\ calls = << Call("cancel", -1) >>
       /\ speechSynthesis.queue = <<>>
       /\ (~hist.pPlaying /\ ~hist.pPaused /\ hist.pIdx = -1) => SameSession

C4_Witness ==
    /\ hist.op = "stopSpeech"
    /\ hist.pPlaying /\ hist.pPaused /\ hist.pIdx >= 0
    /\ speechSynthesis.zombies # {}

\* C5: sentence variant: startSpeech with an article and a non-empty sentence
\* list cancels first, then the state is Playing with index 0 and sentence 0
\* is the one utterance submitted, the only one the engine holds.
C5_StartSpeech ==
    (variant = "sentence" /\ hist.op = "startSpeech"
        /\ article.loaded /\ Len(sentences) > 0)
    => /\ isPlaying /\ ~isPaused
       /\ currentSentenceIndex = 0 /\ currentSentenceRef = 0
       /\ calls = << Call("cancel", -1), Call("speak", 0) >>
       /\ speechSynthesis.queue = << Utterance(0, Len(sentences), "live") >>

C5_Witness ==
    /\ variant = "sentence" /\ hist.op = "startSpeech"
    /\ article.loaded /\ Len(sentences) > 0
    /\ hist.pPlaying /\ hist.pIdx > 0
    /\ speechSynthesis.zombies # {}

\* C6: startSpeech with no article or with an empty unit list changes neither
\* the playback state nor the index and calls neither the engine nor
\* setTimeout, in both variants.
C6_StartSpeechNoOp ==
    (hist.op = "startSpeech" /\ (~article.loaded \/ Len(Units) = 0))
    => (SameSession /\ calls = <<>>)

C6_Witness ==
    /\ hist.op = "startSpeech"
    /\ article.loaded /\ Len(Units) = 0
    /\ calls = <<>>

\* C7: pauseSpeech from Playing asks the engine to pause and leaves the
\* session Paused at the same index; from any other state it changes neither
\* isPlaying, isPaused nor the index.
C7_PauseOnlyFromPlaying ==
    hist.op = "pauseSpeech"
    => IF hist.pPlaying /\ ~hist.pPaused
       THEN /\ isPlaying /\ isPaused /\ CurrentIndex = hist.pIdx
            /\ calls = << Call("pause", -1) >>
       ELSE SameSession

\* C8: pauseSpeech on a Playing session followed at once by resumeSpeech
\* leaves the session Playing at the index it had before the pause (index 0
\* when the pair follows startSpeech in the sentence variant); resumeSpeech on
\* a session that is not paused changes neither state nor index.
C8_PauseResumeRoundTrip ==
    /\ rt.st = "resume"
       => (isPlaying /\ ~isPaused /\ CurrentIndex = rt.idx)
    /\ (rt.st = "resume" /\ rt.fromStart) => CurrentIndex = 0
    /\ (hist.op = "resumeSpeech" /\ ~hist.pPaused) => SameSession

C8_Witness ==
    /\ rt.st = "resume" /\ rt.fromStart
    /\ calls = << Call("resume", -1) >>
    /\ hist.pPaused

\* C9: sentence variant: the end of the last sentence of the playback that is
\* neither cancelled nor superseded leaves the session not playing, not
\* paused, index -1, and the handler calls the engine for nothing.
C9_EndOfLastSentence ==
    (variant = "sentence" /\ mounted /\ hist.op = "onend"
        /\ hist.st = "live" /\ hist.last)
    => /\ ~isPlaying /\ ~isPaused
       /\ currentSentenceIndex = -1 /\ currentSentenceRef = -1
       /\ calls = <<>>

C9_Witness ==
    /\ variant = "sentence" /\ mounted /\ hist.op = "onend"
    /\ hist.st = "live" /\ hist.last
    /\ hist.pPlaying /\ hist.pIdx = 2

\* C10: an engine error on the utterance of the playback that is neither
\* cancelled nor superseded leaves the session not playing, not paused, index
\* -1, and the handler submits nothing to the engine.
C10_EngineError ==
    (mounted /\ hist.op = "onerror" /\ hist.st = "live")
    => /\ ~isPlaying /\ ~isPaused /\ CurrentIndex = -1
       /\ calls = <<>>

C10_Witness ==
    /\ mounted /\ hist.op = "onerror" /\ hist.st = "live"
    /\ variant = "sentence"
    /\ hist.pPlaying /\ hist.pIdx = 1

\* the last handler submitted no utterance to the engine
NoSpeak == \A k \in 1..Len(calls) : calls[k].call # "speak"

\* C11: when an extraction request fails, no segmentation is performed for it
\* and the article stays absent; from then until a later extraction succeeds
\* no utterance is submitted to the engine and the playback state stays
\* not-playing with index -1, whatever control operation or engine callback
\* runs in between.
C11_FailedExtraction ==
    [][ hist'.failed =>
          /\ ~article'.loaded
          /\ ~isPlaying' /\ CurrentIndex' = -1
          /\ \A k \in 1..Len(calls') : calls'[k].call # "speak"
          /\ (hist'.op = "fetchFail" => UNCHANGED << sentences, words >>) ]_vars

\* the last handler was a handleSubmit that sent an extraction request
RequestSent == hist.op = "handleSubmit" /\ loading

\* C12: whenever a new extraction begins (handleSubmit with a non-empty URL)
\* the previous session is discarded before the request is sent: the playback
\* state is reset to not-playing with index -1, the engine is asked to cancel,
\* and the unit list of the previous article is cleared.
C12_SubmitDiscardsSession ==
    RequestSent =>
        /\ ~isPlaying /\ ~isPaused /\ CurrentIndex = -1
        /\ calls = << Call("cancel", -1) >>
        /\ speechSynthesis.queue = <<>>
        /\ Units = <<>>

\* C12 as the code has it: the playback state is reset, the engine is asked
\* to cancel and the article becomes absent, but the unit list of the previous
\* article is left as it was until a later extraction succeeds.
C12_SubmitResetsPlayback ==
    [][ (hist'.op = "handleSubmit" /\ loading') =>
          /\ ~isPlaying' /\ ~isPaused' /\ CurrentIndex' = -1
          /\ calls' = << Call("cancel", -1) >>
          /\ speechSynthesis'.queue = <<>>
          /\ ~article'.loaded
          /\ UNCHANGED << sentences, words >> ]_vars

\* C12 witness: a request is sent while an article is being played
C12_Witness ==
    /\ RequestSent
    /\ hist.pPlaying /\ hist.pIdx >= 0
    /\ Len(Units) > 0

\* C13: teardown releases the engine: once the component has unmounted, the
\* engine has been asked to cancel, and the controller never submits another
\* utterance, even when end callbacks of utterances submitted before the
\* unmount are delivered afterwards.
C13_TeardownReleasesEngine ==
    ~mounted =>
        /\ hist.op = "unmount" => calls = << Call("cancel", -1) >>
        /\ NoSpeak

\* C14: in the word variant, once stopSpeech has returned no estimator timer
\* scheduled by an earlier startSpeech is still pending, and no tick of such a
\* timer changes currentWordIndex afterwards, a new startSpeech included (a
\* timer is tagged "stale" from the first cancel() after it was scheduled).
C14_StopClearsTimers ==
    variant = "word" =>
        /\ hist.op = "stopSpeech" => timers = {}
        /\ (hist.op = "speakWithHighlight" /\ hist.st = "stale")
               => currentWordIndex = hist.pIdx

\* a text without its white space
NoSpaces(s) == SelectSeq(s, LAMBDA c : c \notin Spaces)

\* a text without the white space and punctuation it begins with
RECURSIVE DropLeading(_)
DropLeading(s) ==
    IF s # <<>> /\ Head(s) \in (Spaces \cup Puncts) THEN DropLeading(Tail(s))
    ELSE s

\* a sentence unit: trimmed, some text that holds no terminal punctuation,
\* then at most one run of terminal punctuation, at its end
SentenceUnit(x) ==
    /\ Trim(x) = x
    /\ StripPunct(x) # <<>>
    /\ \A k \in 1..Len(StripPunct(x)) : x[k] \notin Puncts

\* the sentence variant holds the segmentation of an article
Segmented == variant = "sentence" /\ article.loaded

\* C15: in sentence segmentation, for every content text, every run of
\* terminal punctuation appears attached to the end of the unit for the text
\* that preceded it: no run is dropped, no unit consists of punctuation only,
\* and no unit is empty after trimming.
C15_SentenceSegmentation ==
    Segmented =>
        /\ NoSpaces(Concat(sentences)) = NoSpaces(article.content)
        /\ \A k \in 1..Len(sentences) : SentenceUnit(sentences[k])

\* C15 as the code has it: the punctuation (and white space) before the first
\* text of the content is dropped; every later run is attached to the end of
\* the unit before it, and every unit is text followed by punctuation.
C15_SegmentationAfterFirstText ==
    Segmented =>
        /\ NoSpaces(Concat(sentences)) = NoSpaces(DropLeading(article.content))
        /\ \A k \in 1..Len(sentences) : SentenceUnit(sentences[k])

\* C15 witness: a content that begins with punctuation and has two sentences,
\* the first of which ends with punctuation
C15_Witness ==
    /\ Segmented /\ hist.op = "fetchOk"
    /\ article.content # <<>> /\ article.content[1] \in Puncts
    /\ Len(sentences) = 2
    /\ sentences[1][Len(sentences[1])] \in Puncts

\* the maximal runs of non-white-space characters of a text, in order
RECURSIVE Tokens(_, _)
Tokens(s, cur) ==
    IF s = <<>> THEN (IF cur = <<>> THEN <<>> ELSE << cur >>)
    ELSE IF Head(s) \in Spaces
         THEN (IF cur = <<>> THEN <<>> ELSE << cur >>) \o Tokens(Tail(s), <<>>)
         ELSE Tokens(Tail(s), Append(cur, Head(s)))

\* a text with every run of white space replaced by one space
RECURSIVE Collapse(_)
Collapse(s) ==
    IF s = <<>> THEN <<>>
    ELSE IF Head(s) \in Spaces
         THEN IF Len(s) > 1 /\ s[2] \in Spaces THEN Collapse(Tail(s))
              ELSE <<" ">> \o Collapse(Tail(s))
         ELSE << Head(s) >> \o Collapse(Tail(s))

\* the positions at which a token of the text begins
TokenStarts(s) ==
    { i \in 1..Len(s) : s[i] \notin Spaces /\ (i = 1 \/ s[i - 1] \in Spaces) }

\* the units (0-based) that follow a double line break: a token that is not
\* the first and whose preceding run of white space holds two line feeds in a row
ParagraphUnits(s) ==
    { Cardinality({ j \in TokenStarts(s) : j < i }) :
        i \in { i \in TokenStarts(s) :
                  /\ \E j \in TokenStarts(s) : j < i
                  /\ \E j \in 1..(i - 2) :
                        /\ s[j] = "\n" /\ s[j + 1] = "\n"
                        /\ \A m \in j..(i - 1) : s[m] \in Spaces } }

\* C16: in word segmentation the units are exactly the maximal non-white-space
\* tokens of the content, in order; the rendering, each unit followed by one
\* space (none after the last), is the content with every run of white space
\* replaced by one space; the first unit of a paragraph that follows a double
\* line break is marked as starting a new paragraph, and unit 0 is not.
C16_WordSegmentation ==
    (variant = "word" /\ article.loaded) =>
        /\ words = Tokens(article.content, <<>>)
        /\ (view.rendered /\ Len(words) > 0) =>
              /\ Concat(view.text) = Collapse(article.content)
              /\ view.breaks = ParagraphUnits(article.content)

\* the position just after sentence k (1-based) as renderArticleContent
\* located it
LocatedEnd(k) == view.starts[k] + Len(sentences[k])

\* C17: in the sentence variant's paragraph detection the units are located at
\* strictly increasing, non-overlapping positions of the content, and a unit
\* is marked as starting a new paragraph exactly when a double line break
\* lies between the end of the previously located unit and the start of this
\* unit, in particular when the punctuation of the previous sentence is
\* immediately followed by the double line break.
C17_ParagraphDetection ==
    (variant = "sentence" /\ view.rendered) =>
        /\ Len(view.starts) = Len(sentences)
        /\ \A k \in 1..Len(sentences) : view.starts[k] >= 0
        /\ \A k \in 2..Len(sentences) :
              /\ view.starts[k] >= LocatedEnd(k - 1)
              /\ (k - 1) \in view.breaks <=>
                    \E p \in LocatedEnd(k - 1)..(view.starts[k] - 2) :
                        OccursAt(article.content, <<"\n", "\n">>, p)

\* the request carries no url, or one that is not well formed
BadUrl ==
    \/ server.body.kind # "object"
    \/ ~server.body.has
    \/ server.body.url = <<>>
    \/ ~WellFormed(server.body.url)

\* C18: POST /api/extract answers each request with exactly one response:
\* status 400 when the URL is missing or not well formed, and then no
\* outbound fetch is made; status 500 when the fetch fails, the fetched
\* response is not OK or no article content can be extracted; and the
\* article only when all of those steps succeed.
C18_ExtractResponses ==
    /\ server.pc # "done" => server.responses = <<>>
    /\ server.pc = "done" =>
          /\ Len(server.responses) = 1
          /\ BadUrl => (server.responses[1].status = 400 /\ server.fetches = 0)
          /\ (~BadUrl /\ (\/ server.fetch \in {"rejected", "notOk"}
                            \/ server.parse \in {"threw", "null", "empty"}))
                => server.responses[1].status = 500
          /\ server.responses[1].status = 200 <=>
                (~BadUrl /\ server.fetch = "ok" /\ server.parse = "article")

\* C19: in the word variant startSpeech returns without changing isPlaying or
\* currentWordIndex; the state becomes Playing with currentWordIndex 0
\* exactly when the engine delivers onstart, and Stopped with currentWordIndex
\* -1 when the engine delivers the end or the error signal.
C19_PlayingOnlyOnStart ==
    (variant = "word" /\ mounted) =>
        /\ hist.op = "startSpeech" =>
              (isPlaying = hist.pPlaying /\ currentWordIndex = hist.pIdx)
        /\ hist.op = "onstart" =>
              (isPlaying /\ ~isPaused /\ currentWordIndex = 0)
        /\ (isPlaying /\ ~hist.pPlaying) => hist.op = "onstart"
        /\ hist.op \in {"onend", "onerror"} =>
              (~isPlaying /\ ~isPaused /\ currentWordIndex = -1)

\* C19 witness: startSpeech on a loaded article has left the state not
\* playing with index -1 and the onstart of its utterance has then made it
\* Playing with index 0
C19_Witness ==
    /\ variant = "word" /\ mounted
    /\ hist.op = "onstart" /\ hist.st = "live"
    /\ ~hist.pPlaying /\ hist.pIdx = -1
    /\ isPlaying /\ ~isPaused /\ currentWordIndex = 0

\* the last step was a tick of a timer of the current playback, scheduled by a
\* startSpeech that ran while the state was not playing, firing while Playing
LiveTick ==
    /\ variant = "word" /\ mounted
    /\ hist.op = "speakWithHighlight" /\ hist.st = "live" /\ ~hist.cap
    /\ hist.pPlaying /\ ~hist.pPaused

\* C20: in the word variant, after startSpeech has been invoked from a
\* not-playing state and the engine has signalled start, the timer ticks
\* advance currentWordIndex one unit at a time (0, 1, 2, ...) while the state
\* is Playing, and never beyond the last unit index: a tick moves the index by
\* at most one, keeps it within the units, and while units remain the next
\* tick is scheduled.
C20_EstimatorAdvances ==
    LiveTick =>
        /\ currentWordIndex \in {hist.pIdx, hist.pIdx + 1}
        /\ currentWordIndex < Len(words)
        /\ hist.pIdx + 1 < Len(words) => \E t \in timers : t.st = "live"

\* the order of an uninterrupted playback: one utterance at a time, for the
\* sentence the index shows; startSpeech submits sentence 0, the end of
\* sentence i submits sentence i + 1, the end of the last one submits nothing
PlaybackOrder ==
    /\ Len(speechSynthesis.queue) <= 1 /\ speechSynthesis.zombies = {}
    /\ isPlaying =>
          /\ Len(speechSynthesis.queue) = 1
          /\ Head(speechSynthesis.queue).idx = currentSentenceIndex
          /\ currentSentenceIndex \in 0..(Len(sentences) - 1)
    /\ ~isPlaying => (speechSynthesis.queue = <<>> /\ currentSentenceIndex = -1)
    /\ (hist.op = "startSpeech" /\ isPlaying) =>
          calls = << Call("cancel", -1), Call("speak", 0) >>
    /\ hist.op = "onend" =>
          IF hist.last
          THEN calls = <<>> /\ ~isPlaying /\ hist.pIdx = Len(sentences) - 1
          ELSE calls = << Call("speak", hist.pIdx + 1) >> /\ isPlaying

\* C21: sentence variant, a playback over n >= 1 units with no control call
\* and no engine error after startSpeech, on an engine that eventually
\* signals the end of every utterance it is given: the utterances submitted
\* are units 0, 1, ..., n-1 in that order, unit i+1 only after the end signal
\* of unit i, currentSentenceIndex is the index of the unit being spoken, and
\* the session eventually reaches Stopped with index -1.
C21_FullPlayback ==
    /\ []PlaybackOrder
    /\ isPlaying ~> (~isPlaying /\ ~isPaused /\ currentSentenceIndex = -1)

\* C21 witness: the end of the last of three sentences has stopped a playback
C21_Witness ==
    /\ variant = "sentence" /\ Len(sentences) = 3
    /\ hist.op = "onend" /\ hist.last /\ hist.pPlaying /\ hist.pIdx = 2
    /\ ~isPlaying /\ currentSentenceIndex = -1

\* C22: submitting an empty or white-space-only URL only sets the error
\* message: no extraction request is sent, loading stays false, and the
\* article, the unit list, the playback state, the current index and the
\* engine are left as they were (a playback that is going on is not stopped).
C22_EmptyUrlOnlySetsError ==
    [][ (hist'.op = "handleSubmit" /\ ~loading') =>
          /\ error' = "Please enter a URL"
          /\ calls' = <<>>
          /\ UNCHANGED << article, loading, inflight, sentences, words,
                          isPlaying, isPaused, currentSentenceIndex,
                          currentWordIndex, currentSentenceRef,
                          speechSynthesis, timers >> ]_vars

\* C22 witness: an empty URL has been submitted during a playback, which goes on
C22_Witness ==
    /\ hist.op = "handleSubmit" /\ ~loading
    /\ error = "Please enter a URL"
    /\ article.loaded
    /\ hist.pPlaying /\ isPlaying /\ CurrentIndex >= 0
    /\ speechSynthesis.queue # <<>>

\* a run of white space holds a blank-line boundary: two line feeds or more
BlankLine(run) == Cardinality({ i \in 1..Len(run) : run[i] = "\n" }) >= 2

\* a text with every run of white space that holds a blank-line boundary
\* replaced by a double line break, every other run by one space, and no
\* white space at either end
KeepParagraphs(t) ==
    LET parts == SplitRuns(t, Spaces)
    IN Trim(Concat([k \in 1..Len(parts) |->
                       IF k % 2 = 1 THEN parts[k]
                       ELSE IF BlankLine(parts[k]) THEN <<"\n", "\n">>
                       ELSE <<" ">>]))

\* C23: text-only extractor: the cleaned content keeps the paragraph breaks:
\* wherever the extracted text has a blank-line boundary between two
\* non-empty paragraphs the content returned has a double line break at that
\* place, and every other run of white space is collapsed to one space.
C23_CleanKeepsParagraphs ==
    (server.pc = "done" /\ server.parse = "article") =>
        /\ server.responses[1].status = 200
        /\ server.responses[1].content = KeepParagraphs(server.textContent)

\* C24: sentence variant: in every reachable state, when the session is not
\* playing currentSentenceIndex is -1, and currentSentenceRef holds the same
\* value as currentSentenceIndex, whatever the interleaving of control calls,
\* handleSubmit and engine callbacks, those of cancelled utterances included.
C24_IdleIndexAndRef ==
    (variant = "sentence" /\ mounted) =>
        /\ ~isPlaying => currentSentenceIndex = -1
        /\ currentSentenceRef = currentSentenceIndex

\* C25: sentence variant: in every reachable state currentSentenceIndex is -1
\* or a valid index of the unit list the view holds, also after a new
\* extraction has replaced the list while callbacks of the previous playback
\* are outstanding.
C25_IndexWithinUnits ==
    (variant = "sentence" /\ mounted) =>
        currentSentenceIndex \in -1..(Len(sentences) - 1)

C27_PlayingEngineNotPaused ==
    (mounted /\ isPlaying /\ ~isPaused) => ~speechSynthesis.paused

C28_LoadingIffInFlight ==
    mounted => (loading <=> inflight > 0)

\* C28 witness: a request has been answered with a failure and loading is off
C28_Witness ==
    /\ mounted /\ hist.op = "fetchFail"
    /\ ~loading /\ inflight = 0
====
